---- MODULE Spec2Model ----
(***************************************************************************)
(* Model of serve.py: a development file server built from                 *)
(* ThreadingHTTPServer and a SimpleHTTPRequestHandler subclass that         *)
(* overrides do_GET (optional 1 second delay) and send_error (a 404 is      *)
(* turned into a second GET resolution against /index.html).               *)
(*                                                                         *)
(* One connection carries one request (HTTP/1.0).  Each accepted           *)
(* connection is handled by its own thread.  The only suspension point of  *)
(* a handler is time.sleep; everything else a handler does between two     *)
(* suspension points is one step.  Time is counted in seconds: Tick lets   *)
(* one second pass, and only when no handler or accept step is pending.    *)
(***************************************************************************)
EXTENDS Integers, Sequences, FiniteSets, TLC

\* ---- bounds ----
MaxConn == 2            \* connections a behaviour opens
RecursionLimit == 8     \* stands for the interpreter's recursion limit

\* ---- the served directory and the requests ----
IndexPath == "/index.html"
Paths == {"/index.html", "/style.css"}
Conns == 1..MaxConn
None == "None"

\* The bytes a path holds when it exists.
FileData(p) ==
    CASE p = "/index.html" -> "<html>A</html>"
      [] p = "/style.css"  -> "body{}"
      [] OTHER             -> ""

\* Content type inferred from the extension of the path being served.
guess_type(p) ==
    CASE p = "/index.html" -> "text/html"
      [] p = "/style.css"  -> "text/css"
      [] OTHER             -> "application/octet-stream"

\* Request lines a client may send: a method and a target, or a malformed line.
Requests ==
    ({"GET", "HEAD"} \X Paths) \cup {<<"POST", "/style.css">>, <<"BAD", "">>}

VARIABLES
    slow,       \* args.slow
    files,      \* the paths that exist (as readable files) in the served directory
    serving,    \* serve_forever is running
    pc,         \* per connection: "idle","queued","accepted","sleeping","done","aborted"
    method,     \* per connection: the request's command
    reqPath,    \* per connection: the request target as sent
    path,       \* per connection: self.path of its handler
    wire,       \* per connection: what the handler has written to the socket
    rewrites,   \* per connection: times self.path was set to /index.html
    resolves,   \* per connection: times a path was resolved against the directory
    errors,     \* per connection: calls of send_error
    sleeps,     \* per connection: calls of time.sleep
    timer,      \* per connection: seconds left of the current sleep
    elapsed,    \* per connection: seconds between its arrival and its end
    sawAbort    \* per connection: it was in flight when another handler aborted

vars == <<slow, files, serving, pc, method, reqPath, path, wire, rewrites,
          resolves, errors, sleeps, timer, elapsed, sawAbort>>

\* ---- what is written to a connection ----
Headers(code, ctype) == <<"head", code, ctype>>
Content(data) == <<"body", 0, data>>
ErrorContentType == "text/html;charset=utf-8"
ErrorBody(code) == <<"body", code, "Error response">>

\* A handler's own state while it runs: its request, self.path, the socket
\* output so far, the pending exception (if any) and the file send_head returned.
HandlerState(m, p) ==
    [method |-> m, path |-> p, wire |-> <<>>, rewrites |-> 0, resolves |-> 0,
     errors |-> 0, exc |-> "none", f |-> None]

\* A call that would go deeper than the recursion limit raises RecursionError.
Raise(st) == [st EXCEPT !.exc = "RecursionError", !.f = None]

RECURSIVE super_do_GET(_, _)
RECURSIVE send_head(_, _)
RECURSIVE send_error(_, _, _)

\* BaseHTTPRequestHandler.send_error: status line and headers of the error,
\* then the explanatory body unless the command is HEAD.
super_send_error(st, code) ==
    [st EXCEPT !.wire =
        IF st.method # "HEAD"
        THEN @ \o <<Headers(code, ErrorContentType), ErrorBody(code)>>
        ELSE @ \o <<Headers(code, ErrorContentType)>>]

\* Variant of send_error without the override: every code gets the default.
send_error_default(st, code, depth) ==
    IF depth > RecursionLimit THEN Raise(st)
    ELSE super_send_error([st EXCEPT !.errors = @ + 1], code)

\* Variant of send_error without the test of the code: every error is
\* turned into the fallback.
send_error_any_code(st, code, depth) ==
    IF depth > RecursionLimit THEN Raise(st)
    ELSE super_do_GET([st EXCEPT !.errors = @ + 1, !.path = IndexPath,
                                 !.rewrites = @ + 1], depth + 1)

\* Variant of send_error that runs the fallback and then also emits the
\* error it was called for.
send_error_and_default(st, code, depth) ==
    IF depth > RecursionLimit THEN Raise(st)
    ELSE LET r == [st EXCEPT !.errors = @ + 1]
         IN IF code # 404 THEN super_send_error(r, code)
            ELSE LET q == super_do_GET([r EXCEPT !.path = IndexPath,
                                                 !.rewrites = @ + 1], depth + 1)
                 IN IF q.exc = "none" THEN super_send_error(q, code) ELSE q

\* Handler.send_error: every code but 404 goes to the default; a 404 sets
\* self.path to /index.html and runs the base class's do_GET.
send_error(st, code, depth) ==
    IF depth > RecursionLimit THEN Raise(st)
    ELSE LET r == [st EXCEPT !.errors = @ + 1]
         IN IF code # 404 THEN super_send_error(r, code)
            ELSE super_do_GET([r EXCEPT !.path = IndexPath, !.rewrites = @ + 1],
                              depth + 1)

\* SimpleHTTPRequestHandler.send_head: resolve self.path; a file that opens
\* gets 200 and its headers and is returned; otherwise self.send_error(404)
\* is called and None is returned.
send_head(st, depth) ==
    IF depth > RecursionLimit THEN Raise(st)
    ELSE LET r == [st EXCEPT !.resolves = @ + 1]
         IN IF r.path \in files
            THEN [r EXCEPT !.wire = Append(@, Headers(200, guess_type(r.path))),
                           !.f = FileData(r.path)]
            ELSE [send_error(r, 404, depth + 1) EXCEPT !.f = None]

\* Variant of the base do_GET that never copies the file.
super_do_GET_no_copy(st, depth) ==
    IF depth > RecursionLimit THEN Raise(st)
    ELSE [send_head(st, depth + 1) EXCEPT !.f = None]

\* SimpleHTTPRequestHandler.do_GET: send_head, then copy the file it returned.
super_do_GET(st, depth) ==
    IF depth > RecursionLimit THEN Raise(st)
    ELSE LET r == send_head(st, depth + 1)
         IN IF r.f # None
            THEN [r EXCEPT !.wire = Append(@, Content(r.f)), !.f = None]
            ELSE r

\* SimpleHTTPRequestHandler.do_HEAD: send_head, then close the file.
do_HEAD(st, depth) ==
    IF depth > RecursionLimit THEN Raise(st)
    ELSE [send_head(st, depth + 1) EXCEPT !.f = None]

\* Variant of the delay with the test of the flag inverted.
do_GET_delay_inverted == IF slow THEN 0 ELSE 1

\* Handler.do_GET, lines 15-16: seconds of suspension before the base do_GET.
do_GET_delay == IF slow THEN 1 ELSE 0

\* Variant of the accept loop that handles a connection itself: nothing is
\* accepted while a handler runs.
CanAccept_serial(c) ==
    /\ pc[c] = "queued"
    /\ \A d \in Conns : pc[d] \notin {"accepted", "sleeping"}

\* ThreadingHTTPServer hands each accepted connection to a new thread, so the
\* accept loop takes the next connection whatever the handlers are doing.
CanAccept(c) == pc[c] = "queued"

\* Variant of handle_error that lets the exception end the serve loop.
handle_error_fatal(up) == FALSE

\* socketserver's handle_error: the exception of one handler is reported and
\* its connection shut down; the serve loop goes on.
handle_error(up) == up

\* ---- the state machine ----
Init ==
    /\ slow \in BOOLEAN
    /\ files \in SUBSET Paths
    /\ serving = TRUE
    /\ pc = [c \in Conns |-> "idle"]
    /\ method = [c \in Conns |-> ""]
    /\ reqPath = [c \in Conns |-> ""]
    /\ path = [c \in Conns |-> ""]
    /\ wire = [c \in Conns |-> <<>>]
    /\ rewrites = [c \in Conns |-> 0]
    /\ resolves = [c \in Conns |-> 0]
    /\ errors = [c \in Conns |-> 0]
    /\ sleeps = [c \in Conns |-> 0]
    /\ timer = [c \in Conns |-> 0]
    /\ elapsed = [c \in Conns |-> 0]
    /\ sawAbort = [c \in Conns |-> FALSE]

\* The handler of c ends with state st: its output and self.path are what st
\* holds; an exception that left handle() goes to handle_error.
Finish(c, st) ==
    /\ wire' = [wire EXCEPT ![c] = st.wire]
    /\ path' = [path EXCEPT ![c] = st.path]
    /\ rewrites' = [rewrites EXCEPT ![c] = st.rewrites]
    /\ resolves' = [resolves EXCEPT ![c] = st.resolves]
    /\ errors' = [errors EXCEPT ![c] = st.errors]
    /\ pc' = [pc EXCEPT ![c] = IF st.exc = "none" THEN "done" ELSE "aborted"]
    /\ serving' = IF st.exc = "none" THEN serving ELSE handle_error(serving)
    /\ sawAbort' = [d \in Conns |->
                      IF /\ st.exc # "none" /\ d # c
                         /\ pc[d] \in {"queued", "accepted", "sleeping"}
                      THEN TRUE ELSE sawAbort[d]]

\* A client opens connection c and sends its request line.  Connections are
\* numbered in the order they are opened.
Connect(c, rq) ==
    /\ pc[c] = "idle"
    /\ \A d \in Conns : d < c => pc[d] # "idle"
    /\ pc' = [pc EXCEPT ![c] = "queued"]
    /\ method' = [method EXCEPT ![c] = rq[1]]
    /\ reqPath' = [reqPath EXCEPT ![c] = rq[2]]
    /\ UNCHANGED <<slow, files, serving, path, wire, rewrites, resolves,
                   errors, sleeps, timer, elapsed, sawAbort>>

\* serve_forever accepts c and starts its handler thread.
Accept(c) ==
    /\ serving
    /\ CanAccept(c)
    /\ pc' = [pc EXCEPT ![c] = "accepted"]
    /\ UNCHANGED <<slow, files, serving, method, reqPath, path, wire, rewrites,
                   resolves, errors, sleeps, timer, elapsed, sawAbort>>

\* parse_request rejects a malformed request line: send_error(400); self.path
\* is never set.
HandleBadRequest(c) ==
    /\ pc[c] = "accepted"
    /\ method[c] = "BAD"
    /\ Finish(c, send_error(HandlerState("BAD", ""), 400, 1))
    /\ UNCHANGED <<slow, files, method, reqPath, sleeps, timer, elapsed>>

\* handle_one_request finds no do_<command> method: send_error(501).
HandleUnsupported(c) ==
    /\ pc[c] = "accepted"
    /\ method[c] = "POST"
    /\ Finish(c, send_error(HandlerState(method[c], reqPath[c]), 501, 1))
    /\ UNCHANGED <<slow, files, method, reqPath, sleeps, timer, elapsed>>

\* handle_one_request dispatches HEAD to the inherited do_HEAD.
HandleHEAD(c) ==
    /\ pc[c] = "accepted"
    /\ method[c] = "HEAD"
    /\ Finish(c, do_HEAD(HandlerState(method[c], reqPath[c]), 1))
    /\ UNCHANGED <<slow, files, method, reqPath, sleeps, timer, elapsed>>

\* Handler.do_GET with the delay: the handler thread calls time.sleep.
HandleGETSleep(c) ==
    /\ pc[c] = "accepted"
    /\ method[c] = "GET"
    /\ do_GET_delay > 0
    /\ pc' = [pc EXCEPT ![c] = "sleeping"]
    /\ path' = [path EXCEPT ![c] = reqPath[c]]
    /\ sleeps' = [sleeps EXCEPT ![c] = @ + 1]
    /\ timer' = [timer EXCEPT ![c] = do_GET_delay]
    /\ UNCHANGED <<slow, files, serving, method, reqPath, wire, rewrites,
                   resolves, errors, elapsed, sawAbort>>

\* Handler.do_GET without the delay: super().do_GET() at once.
HandleGET(c) ==
    /\ pc[c] = "accepted"
    /\ method[c] = "GET"
    /\ do_GET_delay = 0
    /\ Finish(c, super_do_GET(HandlerState(method[c], reqPath[c]), 2))
    /\ UNCHANGED <<slow, files, method, reqPath, sleeps, timer, elapsed>>

\* time.sleep returns and Handler.do_GET goes on with super().do_GET().
Wake(c) ==
    /\ pc[c] = "sleeping"
    /\ timer[c] = 0
    /\ Finish(c, super_do_GET(HandlerState(method[c], path[c]), 2))
    /\ UNCHANGED <<slow, files, method, reqPath, sleeps, timer, elapsed>>

\* A step of c's handler or of the accept loop can be taken now.
Pending ==
    \E c \in Conns :
        \/ pc[c] = "accepted"
        \/ pc[c] = "sleeping" /\ timer[c] = 0
        \/ serving /\ CanAccept(c)

\* One second passes: every sleep has one second less to go and every
\* connection still open is one second older.
Tick ==
    /\ ~Pending
    /\ \E c \in Conns : pc[c] = "sleeping"
    /\ timer' = [c \in Conns |-> IF pc[c] = "sleeping" THEN timer[c] - 1 ELSE timer[c]]
    /\ elapsed' = [c \in Conns |->
                     IF pc[c] \in {"queued", "accepted", "sleeping"}
                     THEN elapsed[c] + 1 ELSE elapsed[c]]
    /\ UNCHANGED <<slow, files, serving, pc, method, reqPath, path, wire,
                   rewrites, resolves, errors, sleeps, sawAbort>>

Next ==
    \/ \E c \in Conns, rq \in Requests : Connect(c, rq)
    \/ \E c \in Conns : Accept(c)
    \/ \E c \in Conns : HandleBadRequest(c)
    \/ \E c \in Conns : HandleUnsupported(c)
    \/ \E c \in Conns : HandleHEAD(c)
    \/ \E c \in Conns : HandleGETSleep(c)
    \/ \E c \in Conns : HandleGET(c)
    \/ \E c \in Conns : Wake(c)
    \/ Tick

Spec == Init /\ [][Next]_vars

\* ---- properties ----
Finished(c) == pc[c] \in {"done", "aborted"}

\* Some step of c's handler thread.
HandlerStep(c) ==
    \/ HandleBadRequest(c)
    \/ HandleUnsupported(c)
    \/ HandleHEAD(c)
    \/ HandleGETSleep(c)
    \/ HandleGET(c)
    \/ Wake(c)

\* The default error response of the static-file handler.
DefaultError(code, m) ==
    IF m = "HEAD" THEN <<Headers(code, ErrorContentType)>>
    ELSE <<Headers(code, ErrorContentType), ErrorBody(code)>>

\* C1: with no index.html, a GET for a path that does not exist ends with the
\* default 404 response on the connection and the handling finishes normally.
C1_MissingIndexGives404 ==
    \A c \in Conns :
        (IndexPath \notin files /\ method[c] = "GET" /\ reqPath[c] \notin files
            /\ Finished(c))
        => (pc[c] = "done" /\ wire[c] = DefaultError(404, "GET"))

\* C2: with index.html present, the response to a GET for a path that does
\* not exist is the response to a direct GET /index.html, status and bytes,
\* with and without the delay.
C2_FallbackEqualsIndex ==
    IndexPath \in files =>
        \A c, d \in Conns :
            (method[c] = "GET" /\ reqPath[c] \notin files /\ Finished(c)
                /\ method[d] = "GET" /\ reqPath[d] = IndexPath /\ Finished(d))
            => (pc[c] = "done" /\ pc[d] = "done" /\ wire[c] = wire[d]
                /\ wire[d] = <<Headers(200, "text/html"), Content("<html>A</html>")>>)

C2_Witness ==
    /\ slow
    /\ \E c, d \in Conns :
        /\ method[c] = "GET" /\ reqPath[c] \notin files /\ pc[c] = "done"
        /\ method[d] = "GET" /\ reqPath[d] = IndexPath /\ pc[d] = "done"

\* C3: a request that is not a GET is handled as the static-file handler
\* alone handles it: no delay, and for a path that is not found the default
\* 404 response, never the index document or a body written by do_GET.
\* Stated for a directory that holds index.html, where the handling of a
\* path that is not found cannot fail for want of the fallback document.
C3_NonGetIsDefault ==
    \A c \in Conns :
        (IndexPath \in files /\ method[c] \in {"HEAD", "POST"} /\ Finished(c))
        => /\ pc[c] = "done"
           /\ sleeps[c] = 0
           /\ wire[c] = CASE method[c] = "POST" -> DefaultError(501, "POST")
                          [] reqPath[c] \in files ->
                                <<Headers(200, guess_type(reqPath[c]))>>
                          [] OTHER -> DefaultError(404, "HEAD")

\* C4: an error with a status code other than 404 reaches the client as that
\* code with the default message; self.path stays as it was and the
\* index.html fallback is not served.
C4_OtherErrorsPassThrough ==
    \A c \in Conns :
        (method[c] \in {"POST", "BAD"} /\ Finished(c))
        => /\ pc[c] = "done"
           /\ wire[c] = DefaultError(IF method[c] = "POST" THEN 501 ELSE 400,
                                     method[c])
           /\ path[c] = reqPath[c]
           /\ rewrites[c] = 0
           /\ resolves[c] = 0

C4_Witness ==
    /\ IndexPath \in files
    /\ \E c, d \in Conns :
        /\ method[c] = "POST" /\ pc[c] = "done" /\ errors[c] = 1
        /\ method[d] = "BAD" /\ pc[d] = "done" /\ errors[d] = 1

C6_OneDelayBeforeResolution ==
    \A c \in Conns :
        /\ ~slow => (sleeps[c] = 0 /\ pc[c] # "sleeping" /\ elapsed[c] = 0)
        /\ pc[c] = "sleeping" =>
              /\ slow /\ sleeps[c] = 1 /\ timer[c] \in {0, 1}
              /\ resolves[c] = 0 /\ rewrites[c] = 0 /\ wire[c] = <<>>
        /\ (slow /\ method[c] = "GET" /\ (resolves[c] > 0 \/ wire[c] # <<>>))
              => sleeps[c] = 1
        /\ (slow /\ method[c] = "GET" /\ Finished(c)) => sleeps[c] = 1
        /\ method[c] # "GET" => sleeps[c] = 0

C6_Witness ==
    /\ slow
    /\ \E c \in Conns :
        /\ method[c] = "GET" /\ pc[c] = "done"
        /\ rewrites[c] = 1 /\ resolves[c] = 2 /\ sleeps[c] = 1

\* C7: while a handler sleeps the accept loop can accept every queued
\* connection and every other handler can take its next step; GETs that are
\* in flight together each end one delay period after they arrived.
C7_DelayDoesNotSerialize ==
    /\ \A c, d \in Conns :
          (pc[c] = "sleeping" /\ d # c) =>
              /\ pc[d] = "queued" => ENABLED Accept(d)
              /\ pc[d] = "accepted" => ENABLED HandlerStep(d)
              /\ (pc[d] = "sleeping" /\ timer[d] = 0) => ENABLED Wake(d)
    /\ \A c \in Conns :
          /\ elapsed[c] <= do_GET_delay
          /\ (method[c] = "GET" /\ Finished(c)) => elapsed[c] = do_GET_delay

C7_Witness ==
    /\ slow
    /\ \E c, d \in Conns :
        /\ c # d
        /\ method[c] = "GET" /\ pc[c] = "sleeping" /\ timer[c] = 0
        /\ method[d] = "GET" /\ pc[d] = "sleeping" /\ timer[d] = 0
        /\ elapsed[c] = 1 /\ elapsed[d] = 1

\* C8: within one request self.path is rewritten to /index.html, and the GET
\* resolution run again, at most once, whatever the directory holds.
C8_RewriteAtMostOnce ==
    \A c \in Conns : rewrites[c] <= 1

\* C9: when the first resolution of a GET fails and index.html exists, nothing
\* of a 404 response is written and the connection carries exactly one
\* response, the fallback's: nothing is written after it.
C9_OneResponseNo404 ==
    IndexPath \in files =>
        \A c \in Conns :
            (method[c] = "GET" /\ reqPath[c] \notin files /\ Finished(c))
            => /\ pc[c] = "done"
               /\ errors[c] = 1
               /\ \A i \in 1..Len(wire[c]) : wire[c][i][2] # 404
               /\ Cardinality({i \in 1..Len(wire[c]) : wire[c][i][1] = "head"}) = 1
               /\ Len(wire[c]) = 2
               /\ wire[c][1][1] = "head" /\ wire[c][2][1] = "body"

C9_Witness ==
    /\ ~slow
    /\ IndexPath \in files
    /\ \E c \in Conns :
        /\ method[c] = "GET" /\ reqPath[c] \notin files /\ pc[c] = "done"
        /\ errors[c] = 1 /\ Len(wire[c]) = 2

\* What a request is answered when its connection is the only one.
AloneResponse(m, p) ==
    CASE m = "BAD"  -> DefaultError(400, "BAD")
      [] m = "POST" -> DefaultError(501, "POST")
      [] m = "HEAD" /\ p \in files -> <<Headers(200, guess_type(p))>>
      [] m = "GET" /\ p \in files ->
            <<Headers(200, guess_type(p)), Content(FileData(p))>>
      [] OTHER -> <<Headers(200, "text/html"), Content(FileData(IndexPath))>>

\* C10: once a handler has aborted with an exception (here the one raised
\* inside the 404 fallback) the accept loop still runs and accepts, every
\* other handler can still take its steps, and every other connection that
\* completes carries the response its request gets on its own.
C10_FailureContained ==
    (\E c \in Conns : pc[c] = "aborted") =>
        /\ serving
        /\ \A d \in Conns :
              /\ pc[d] = "queued" => ENABLED Accept(d)
              /\ pc[d] = "accepted" => ENABLED HandlerStep(d)
              /\ (pc[d] = "sleeping" /\ timer[d] = 0) => ENABLED Wake(d)
              /\ pc[d] = "done" => wire[d] = AloneResponse(method[d], reqPath[d])

C10_Witness ==
    \E c, d \in Conns :
        /\ pc[c] = "aborted" /\ rewrites[c] > 1
        /\ pc[d] = "done" /\ sawAbort[d] /\ wire[d] # <<>>

====
